---- MODULE Spec2Model ----
(***************************************************************************)
(* Model of fix_markdown.py: fix_markdown_file(filepath) reads a Markdown  *)
(* file, inserts blank lines around headings, lists and code fences,       *)
(* wraps bare URLs, collapses runs of blank lines and writes the file      *)
(* back.  Text is modelled character by character: a string is a sequence  *)
(* of characters, a file is one such sequence, and a list of lines is a    *)
(* sequence of them.                                                       *)
(***************************************************************************)
EXTENDS Integers, Sequences, FiniteSets, TLC

VARIABLES file, exists, pc, lines, fixed_lines, result, opened, file0, exists0, rerun

vars == <<file, exists, pc, lines, fixed_lines, result, opened, file0, exists0, rerun>>

(***************************************************************************)
(* Bounds of the model.                                                    *)
(***************************************************************************)
\* longest document over the full line alphabet
MaxLines == 3
\* longest document over the fence alphabet (text, fence delimiter, blank)
MaxFenceLines == 5

(***************************************************************************)
(* Characters and strings.                                                 *)
(***************************************************************************)
Whitespace == {" ", "\t", "\n"}

NL == <<"\n">>

\* the backquote character (the parser takes no backquote inside a string)
BQ == "BQ"

Fence == <<BQ, BQ, BQ>>

Http == <<"h", "t", "t", "p", ":", "/", "/">>

Https == <<"h", "t", "t", "p", "s", ":", "/", "/">>

Last(s) == s[Len(s)]

\* s[k..] starts with p
StartsAt(s, p, k) == k + Len(p) - 1 <= Len(s) /\ SubSeq(s, k, k + Len(p) - 1) = p

startswith(s, p) == StartsAt(s, p, 1)

\* p in s
Contains(s, p) == \E k \in 1..Len(s) : StartsAt(s, p, k)

RECURSIVE CountFrom(_, _, _)
CountFrom(s, p, k) ==
    IF k > Len(s) THEN 0
    ELSE IF StartsAt(s, p, k) THEN 1 + CountFrom(s, p, k + Len(p))
    ELSE CountFrom(s, p, k + 1)

\* s.count(p): non-overlapping occurrences, left to right
count(s, p) == CountFrom(s, p, 1)

RECURSIVE lstrip(_)
lstrip(s) == IF s # <<>> /\ s[1] \in Whitespace THEN lstrip(Tail(s)) ELSE s

RECURSIVE rstrip(_)
rstrip(s) ==
    IF s # <<>> /\ Last(s) \in Whitespace THEN rstrip(SubSeq(s, 1, Len(s) - 1)) ELSE s

strip(s) == rstrip(lstrip(s))

(***************************************************************************)
(* File input and output.                                                  *)
(***************************************************************************)
FirstNL(f) ==
    IF \E k \in 1..Len(f) : f[k] = "\n"
    THEN CHOOSE k \in 1..Len(f) : f[k] = "\n" /\ \A j \in 1..(k - 1) : f[j] # "\n"
    ELSE 0

\* f.readlines(): split after every newline, the newline kept
RECURSIVE readlines(_)
readlines(f) ==
    IF f = <<>> THEN <<>>
    ELSE LET k == FirstNL(f)
         IN  IF k = 0 THEN <<f>>
             ELSE <<SubSeq(f, 1, k)>> \o readlines(SubSeq(f, k + 1, Len(f)))

\* f.writelines(ls): the lines one after the other, nothing added
RECURSIVE writelines(_)
writelines(ls) == IF ls = <<>> THEN <<>> ELSE Head(ls) \o writelines(Tail(ls))

(***************************************************************************)
(* The substitution re.sub applies to a line that holds a URL: a URL that  *)
(* stands between whitespace or the ends of the string is put in <>.       *)
(***************************************************************************)
\* length of https?:// at j, 0 when it is not there
SchemeLen(s, j) ==
    IF StartsAt(s, Https, j) THEN Len(Https)
    ELSE IF StartsAt(s, Http, j) THEN Len(Http)
    ELSE 0

\* first index >= j whose character is whitespace or ']', Len(s)+1 if none
RECURSIVE RunEnd(_, _)
RunEnd(s, j) ==
    IF j > Len(s) THEN j
    ELSE IF s[j] \in Whitespace \/ s[j] = "]" THEN j
    ELSE RunEnd(s, j + 1)

\* groups 2 and 3 tried at j: [ok, r (end of group 2, exclusive), e (end of match, exclusive)]
UrlAt(s, j) ==
    LET n == SchemeLen(s, j)
        r == RunEnd(s, j + n)
    IN  IF n = 0 \/ r = j + n THEN [ok |-> FALSE, r |-> 0, e |-> 0]
        ELSE IF r > Len(s) THEN [ok |-> TRUE, r |-> r, e |-> r]
        ELSE IF s[r] \in Whitespace THEN [ok |-> TRUE, r |-> r, e |-> r + 1]
        ELSE [ok |-> FALSE, r |-> 0, e |-> 0]

\* the whole pattern tried at p: group 1 is one whitespace character, or else
\* the empty match of ^ at the start of the string
MatchAt(s, p) ==
    LET viaSpace == IF s[p] \in Whitespace THEN UrlAt(s, p + 1)
                    ELSE [ok |-> FALSE, r |-> 0, e |-> 0]
        viaStart == IF p = 1 THEN UrlAt(s, p) ELSE [ok |-> FALSE, r |-> 0, e |-> 0]
    IN  IF viaSpace.ok THEN [ok |-> TRUE, u |-> p + 1, r |-> viaSpace.r, e |-> viaSpace.e]
        ELSE IF viaStart.ok THEN [ok |-> TRUE, u |-> p, r |-> viaStart.r, e |-> viaStart.e]
        ELSE [ok |-> FALSE, u |-> 0, r |-> 0, e |-> 0]

\* the scan of re.sub from p: a match is replaced and the scan resumes at its
\* end, an unmatched character is copied
RECURSIVE SubFrom(_, _)
SubFrom(s, p) ==
    IF p > Len(s) THEN <<>>
    ELSE LET m == MatchAt(s, p)
         IN  IF m.ok
             THEN SubSeq(s, p, m.u - 1) \o <<"<">> \o SubSeq(s, m.u, m.r - 1) \o <<">">>
                  \o SubSeq(s, m.r, m.e - 1) \o SubFrom(s, m.e)
             ELSE <<s[p]>> \o SubFrom(s, p + 1)

re_sub(s) == SubFrom(s, 1)

(***************************************************************************)
(* Pass 1: the while loop.  i is the 1-based index of the line, so the     *)
(* code's i > 0 is i > 1 and its i + 1 < len(lines) is i < Len(lines).     *)
(***************************************************************************)
IsBlank(l) == strip(l) = <<>>

IsHeading(l) == startswith(l, <<"#">>)

IsListItem(l) == startswith(strip(l), <<"-">>)

IsFence(l) == startswith(strip(l), Fence)

HasUrl(l) == Contains(l, Http) \/ Contains(l, Https)

\* mutant: no blank line is put between a heading and the heading before it
HeadingBefore_NotAfterHeading(i, fixed) ==
    i > 1 /\ fixed # <<>> /\ ~IsBlank(Last(fixed)) /\ ~IsHeading(Last(fixed))

\* blank line before a heading if the previous line is not blank
HeadingBefore(i, fixed) == i > 1 /\ fixed # <<>> /\ ~IsBlank(Last(fixed))

\* mutant: the bound of the look-ahead is off by one
HeadingAfter_OffByOne(ls, i) ==
    i < Len(ls) - 1 /\ ~IsBlank(ls[i + 1]) /\ ~IsHeading(ls[i + 1])

\* blank line after a heading if the next line is not blank and not a heading
HeadingAfter(ls, i) == i < Len(ls) /\ ~IsBlank(ls[i + 1]) /\ ~IsHeading(ls[i + 1])

HeadingRule(ls, i, fixed) ==
    LET a == IF HeadingBefore(i, fixed) THEN Append(fixed, NL) ELSE fixed
        b == Append(a, ls[i])
    IN  IF HeadingAfter(ls, i) THEN Append(b, NL) ELSE b

\* mutant: the previous line is not tested for being a list item
ListBefore_EveryItem(fixed) ==
    LET prev_line == IF fixed # <<>> THEN Last(fixed) ELSE <<>>
    IN  ~IsBlank(prev_line)

\* blank line before a list item if the previous line is neither blank nor a list item
ListBefore(fixed) ==
    LET prev_line == IF fixed # <<>> THEN Last(fixed) ELSE <<>>
    IN  ~IsBlank(prev_line) /\ ~IsListItem(prev_line)

\* mutant: the list line is appended only when no blank line is
ListRule_ElseAppend(ls, i, fixed) ==
    IF ListBefore(fixed) THEN Append(fixed, NL) ELSE Append(fixed, ls[i])

ListRule(ls, i, fixed) ==
    Append(IF ListBefore(fixed) THEN Append(fixed, NL) ELSE fixed, ls[i])

FenceBefore(i, fixed) == i > 1 /\ fixed # <<>> /\ ~IsBlank(Last(fixed))

\* the line is taken for a closing delimiter
IsClosing(l) == count(l, Fence) % 2 = 0

FenceAfter(ls, i) == IsClosing(ls[i]) /\ i < Len(ls) /\ ~IsBlank(ls[i + 1])

FenceRule(ls, i, fixed) ==
    LET a == IF FenceBefore(i, fixed) THEN Append(fixed, NL) ELSE fixed
        b == Append(a, ls[i])
    IN  IF FenceAfter(ls, i) THEN Append(b, NL) ELSE b

UrlRule(ls, i, fixed) == Append(fixed, re_sub(ls[i]))

\* mutant: the final else branch is missing
LoopBody_NoElse(ls, i, fixed) ==
    IF IsHeading(ls[i]) THEN HeadingRule(ls, i, fixed)
    ELSE IF IsListItem(ls[i]) /\ i > 1 THEN ListRule(ls, i, fixed)
    ELSE IF IsFence(ls[i]) THEN FenceRule(ls, i, fixed)
    ELSE IF HasUrl(ls[i]) THEN UrlRule(ls, i, fixed)
    ELSE fixed

\* one iteration of the loop: the first branch that matches wins
LoopBody(ls, i, fixed) ==
    IF IsHeading(ls[i]) THEN HeadingRule(ls, i, fixed)
    ELSE IF IsListItem(ls[i]) /\ i > 1 THEN ListRule(ls, i, fixed)
    ELSE IF IsFence(ls[i]) THEN FenceRule(ls, i, fixed)
    ELSE IF HasUrl(ls[i]) THEN UrlRule(ls, i, fixed)
    ELSE Append(fixed, ls[i])

RECURSIVE Pass1From(_, _, _)
Pass1From(ls, i, fixed) ==
    IF i > Len(ls) THEN fixed ELSE Pass1From(ls, i + 1, LoopBody(ls, i, fixed))

Pass1(ls) == Pass1From(ls, 1, <<>>)

(***************************************************************************)
(* Pass 2: clean up multiple consecutive blank lines.                      *)
(***************************************************************************)
RECURSIVE CleanFrom(_, _, _, _)
CleanFrom(fixed, k, res, prev_blank) ==
    IF k > Len(fixed) THEN res
    ELSE IF IsBlank(fixed[k])
         THEN CleanFrom(fixed, k + 1, IF ~prev_blank THEN Append(res, fixed[k]) ELSE res, TRUE)
         ELSE CleanFrom(fixed, k + 1, Append(res, fixed[k]), FALSE)

\* mutant: a line is blank only if it is exactly a newline
RECURSIVE CleanFromExact(_, _, _, _)
CleanFromExact(fixed, k, res, prev_blank) ==
    IF k > Len(fixed) THEN res
    ELSE IF fixed[k] = NL
         THEN CleanFromExact(fixed, k + 1, IF ~prev_blank THEN Append(res, fixed[k]) ELSE res, TRUE)
         ELSE CleanFromExact(fixed, k + 1, Append(res, fixed[k]), FALSE)

Pass2_ExactNewline(fixed) == CleanFromExact(fixed, 1, <<>>, FALSE)

Pass2(fixed) == CleanFrom(fixed, 1, <<>>, FALSE)

(***************************************************************************)
(* The documents the program is run on.                                    *)
(***************************************************************************)
TextLine == <<"a", "\n">>

HeadingLine == <<"#", " ", "A", "\n">>

ItemLine == <<"-", " ", "i", "\n">>

IndentedItem == <<" ", "-", "j", "\n">>

FenceLine == Fence \o NL

\* a delimiter line that holds the marker twice
FencePair == Fence \o <<"x">> \o Fence \o NL

SpaceLine == <<" ", "\n">>

\* one bare URL in prose, and one inside link syntax
UrlLine == <<"x", " ">> \o Http \o <<"a", " ", "[", "t", "]", "(">> \o Https \o <<"b", ")", "\n">>

\* three bare URLs, a tab and a space between them
ManyUrls == Http \o <<"a", "\t">> \o Https \o <<"b", " ">> \o Http \o <<"c", "\n">>

LineSet ==
    {TextLine, HeadingLine, ItemLine, IndentedItem, FenceLine, FencePair, NL,
     SpaceLine, UrlLine, ManyUrls}

FenceLineSet == {TextLine, FenceLine, NL}

SeqsUpTo(S, n) == UNION {[1..k -> S] : k \in 0..n}

Docs == SeqsUpTo(LineSet, MaxLines) \cup SeqsUpTo(FenceLineSet, MaxFenceLines)

\* a file ends with a newline or, when it is not empty, without one
Files ==
    {writelines(d) : d \in Docs}
        \cup {SubSeq(writelines(d), 1, Len(writelines(d)) - 1) : d \in Docs \ {<<>>}}

(***************************************************************************)
(* fix_markdown_file(filepath), step by step.                              *)
(***************************************************************************)
Init ==
    /\ exists \in BOOLEAN
    /\ file \in (IF exists THEN Files ELSE {<<>>})
    /\ pc = "start"
    /\ lines = <<>>
    /\ fixed_lines = <<>>
    /\ result = <<>>
    /\ opened = FALSE
    /\ file0 = file
    /\ exists0 = exists
    /\ rerun = FALSE

\* with open(filepath, 'r') as f: lines = f.readlines()
Read ==
    /\ pc = "start"
    /\ exists
    /\ lines' = readlines(file)
    /\ pc' = "pass1"
    /\ UNCHANGED <<file, exists, fixed_lines, result, opened, file0, exists0, rerun>>

\* mutant: the file is opened for reading and writing with truncation
ReadFail_Truncates ==
    /\ pc = "start"
    /\ pc' = "read_failed"
    /\ file' = <<>>
    /\ exists' = TRUE
    /\ UNCHANGED <<lines, fixed_lines, result, opened, file0, exists0, rerun>>

\* open or readlines raises (no such file, no permission, I/O error): the
\* exception leaves fix_markdown_file
ReadFail ==
    /\ pc = "start"
    /\ pc' = "read_failed"
    /\ UNCHANGED <<file, exists, lines, fixed_lines, result, opened, file0, exists0, rerun>>

\* the while loop
FixLines ==
    /\ pc = "pass1"
    /\ fixed_lines' = Pass1(lines)
    /\ pc' = "pass2"
    /\ UNCHANGED <<file, exists, lines, result, opened, file0, exists0, rerun>>

\* the for loop
CleanUp ==
    /\ pc = "pass2"
    /\ result' = Pass2(fixed_lines)
    /\ pc' = "open_w"
    /\ UNCHANGED <<file, exists, lines, fixed_lines, opened, file0, exists0, rerun>>

\* open(filepath, 'w') creates or truncates the file
OpenWrite ==
    /\ pc = "open_w"
    /\ file' = <<>>
    /\ exists' = TRUE
    /\ opened' = TRUE
    /\ pc' = "write"
    /\ UNCHANGED <<lines, fixed_lines, result, file0, exists0, rerun>>

\* f.writelines(result), and the file is closed
WriteLines ==
    /\ pc = "write"
    /\ file' = writelines(result)
    /\ pc' = "done"
    /\ UNCHANGED <<exists, lines, fixed_lines, result, opened, file0, exists0, rerun>>

\* the program is started again on the file it has written
Invoke ==
    /\ pc = "done"
    /\ rerun' = TRUE
    /\ pc' = "start"
    /\ lines' = <<>>
    /\ fixed_lines' = <<>>
    /\ result' = <<>>
    /\ opened' = FALSE
    /\ file0' = file
    /\ exists0' = exists
    /\ UNCHANGED <<file, exists>>

Next == Read \/ ReadFail \/ FixLines \/ CleanUp \/ OpenWrite \/ WriteLines \/ Invoke

Spec == Init /\ [][Next]_vars

(***************************************************************************)
(* Vocabulary of the properties.  The input of a run is the file as it     *)
(* was when the run started, its output the file when the run is done.     *)
(***************************************************************************)
Done == pc = "done"

\* when a run is done, lines = readlines(file0) and result = readlines(file)
\* (C9_ReadFailureWritesNothing, C7_BlankRunsCollapsed)
Input == lines

Output == result

NonBlank(ls) == SelectSeq(ls, LAMBDA l : ~IsBlank(l))

\* number of non-blank lines among the first i
Rank(ls, i) == Len(NonBlank(SubSeq(ls, 1, i)))

\* position of the n-th non-blank line: 0 for n = 0, Len(ls) + 1 when there is none
PosOf(ls, n) ==
    IF n = 0 THEN 0
    ELSE IF \E p \in 1..Len(ls) : ~IsBlank(ls[p]) /\ Rank(ls, p) = n
         THEN CHOOSE p \in 1..Len(ls) : ~IsBlank(ls[p]) /\ Rank(ls, p) = n
         ELSE Len(ls) + 1

\* where the non-blank input line i stands in the output
OutPos(i) == PosOf(Output, Rank(Input, i))

LineAt(ls, p) == IF p \in 1..Len(ls) THEN ls[p] ELSE <<>>

BlankAt(ls, p) == p \in 1..Len(ls) /\ IsBlank(ls[p])

TextAt(ls, p) == p \in 1..Len(ls) /\ ~IsBlank(ls[p])

\* ls with only the first line of every maximal run of blank lines kept
FirstOfBlankRuns(ls) ==
    LET keep == SelectSeq([p \in 1..Len(ls) |-> p],
                          LAMBDA p : ~IsBlank(ls[p]) \/ p = 1 \/ ~IsBlank(ls[p - 1]))
    IN  [k \in 1..Len(keep) |-> ls[keep[k]]]

NoDoubleBlank(ls) == \A p \in 1..(Len(ls) - 1) : ~(IsBlank(ls[p]) /\ IsBlank(ls[p + 1]))

\* line i is handled by the bare-URL branch of the loop
ReachesUrlRule(ls, i) ==
    /\ ~IsHeading(ls[i])
    /\ ~(IsListItem(ls[i]) /\ i > 1)
    /\ ~IsFence(ls[i])
    /\ HasUrl(ls[i])

\* line i is plain text: not blank and handled by none of the spacing branches
IsText(l) == ~IsBlank(l) /\ ~IsHeading(l) /\ ~IsListItem(l) /\ ~IsFence(l)

\* the input with every line of the bare-URL branch replaced by its substitution
UrlRewritten(ls) == [i \in 1..Len(ls) |-> IF ReachesUrlRule(ls, i) THEN re_sub(ls[i]) ELSE ls[i]]

\* a URL token: the scheme, then one or more characters, none of them
\* whitespace or ']'
IsUrlToken(w) ==
    /\ SchemeLen(w, 1) > 0
    /\ Len(w) > SchemeLen(w, 1)
    /\ \A k \in 1..Len(w) : w[k] \notin Whitespace /\ w[k] # "]"

RECURSIVE WordEnd(_, _)
WordEnd(s, p) == IF p > Len(s) \/ s[p] \in Whitespace THEN p ELSE WordEnd(s, p + 1)

\* the line with every URL token that stands between whitespace or the ends
\* of the line put in <>
RECURSIVE WrapAllFrom(_, _)
WrapAllFrom(s, p) ==
    IF p > Len(s) THEN <<>>
    ELSE IF s[p] \in Whitespace THEN <<s[p]>> \o WrapAllFrom(s, p + 1)
    ELSE LET e == WordEnd(s, p)
             w == SubSeq(s, p, e - 1)
         IN  (IF IsUrlToken(w) THEN <<"<">> \o w \o <<">">> ELSE w) \o WrapAllFrom(s, e)

WrapAll(s) == WrapAllFrom(s, 1)

(***************************************************************************)
(* C1                                                                      *)
(***************************************************************************)
\* C1 (as stated): the non-blank lines of the output are, by exact text and in
\* order, the non-blank lines of the input.
C1_ExactContentPreserved == Done => NonBlank(Output) = NonBlank(Input)

\* C1 (amended): the non-blank lines of the output are, in order, the non-blank
\* lines of the input, each by exact text except the lines handled by the
\* bare-URL branch, which appear as the regex substitution leaves them.
C1_ContentPreservedUpToUrls == Done => NonBlank(Output) = NonBlank(UrlRewritten(Input))

C1_Witness ==
    /\ Done
    /\ Input = <<TextLine, UrlLine, HeadingLine>>
    /\ NonBlank(Output) =
           <<TextLine,
             <<"x", " ", "<">> \o Http \o <<"a", ">", " ", "[", "t", "]", "(">> \o Https \o <<"b", ")", "\n">>,
             HeadingLine>>

(***************************************************************************)
(* C2                                                                      *)
(***************************************************************************)
\* lines a..b of ls are a fenced block between two text lines: a delimiter
\* with one marker, one or more non-blank code lines, a delimiter with one marker
FencedBlock(ls, a, b) ==
    /\ 1 < a /\ a + 1 < b /\ b < Len(ls)
    /\ IsFence(ls[a]) /\ count(ls[a], Fence) = 1
    /\ IsFence(ls[b]) /\ count(ls[b], Fence) = 1
    /\ \A k \in (a + 1)..(b - 1) : IsText(ls[k])
    /\ IsText(ls[a - 1])
    /\ IsText(ls[b + 1])

\* C2: a fenced block that stands directly between two non-blank text lines
\* gets exactly one blank line before its opening fence, exactly one after its
\* closing fence, and none between the two fences.
C2_FenceSpacing ==
    Done =>
        \A a, b \in 1..Len(Input) :
            FencedBlock(Input, a, b) =>
                /\ BlankAt(Output, OutPos(a) - 1)
                /\ OutPos(a - 1) = OutPos(a) - 2
                /\ BlankAt(Output, OutPos(b) + 1)
                /\ OutPos(b + 1) = OutPos(b) + 2
                /\ OutPos(b) - OutPos(a) = b - a

(***************************************************************************)
(* C3                                                                      *)
(***************************************************************************)
\* C3 (as stated): a heading directly followed by a heading has no blank line
\* between the two in the output.
C3_NoBlankBetweenHeadings ==
    Done =>
        \A i \in 1..(Len(Input) - 1) :
            IsHeading(Input[i]) /\ IsHeading(Input[i + 1]) => OutPos(i + 1) = OutPos(i) + 1

\* C3 (amended): a heading directly followed by a heading has exactly one
\* blank line between the two in the output, and both headings are unchanged.
C3_OneBlankBetweenHeadings ==
    Done =>
        \A i \in 1..(Len(Input) - 1) :
            IsHeading(Input[i]) /\ IsHeading(Input[i + 1]) =>
                /\ OutPos(i + 1) = OutPos(i) + 2
                /\ BlankAt(Output, OutPos(i) + 1)
                /\ LineAt(Output, OutPos(i)) = Input[i]
                /\ LineAt(Output, OutPos(i + 1)) = Input[i + 1]

C3_Witness ==
    /\ Done
    /\ Input = <<HeadingLine, HeadingLine>>
    /\ Output = <<HeadingLine, NL, HeadingLine>>

(***************************************************************************)
(* C4                                                                      *)
(***************************************************************************)
\* C4: a heading with a non-blank line directly before it and a non-blank line
\* that is no heading directly after it stands in the output unchanged, with
\* exactly one blank line before it and exactly one after it.
C4_HeadingSpacing ==
    Done =>
        \A i \in 2..(Len(Input) - 1) :
            /\ IsHeading(Input[i])
            /\ ~IsBlank(Input[i - 1])
            /\ ~IsBlank(Input[i + 1]) /\ ~IsHeading(Input[i + 1])
            => /\ LineAt(Output, OutPos(i)) = Input[i]
               /\ BlankAt(Output, OutPos(i) - 1)
               /\ OutPos(i - 1) = OutPos(i) - 2
               /\ BlankAt(Output, OutPos(i) + 1)
               /\ OutPos(i + 1) = OutPos(i) + 2

C4_Witness ==
    /\ Done
    /\ Input = <<TextLine, HeadingLine, TextLine>>
    /\ Output = <<TextLine, NL, HeadingLine, NL, TextLine>>

(***************************************************************************)
(* C5                                                                      *)
(***************************************************************************)
\* C5: a run of list items that does not start at the first line and whose
\* predecessor is neither blank nor a list item has exactly one blank line
\* between the predecessor and its first item and none between two of its
\* items, and its items are unchanged.
C5_ListSpacing ==
    Done =>
        \A i \in 2..Len(Input) :
            IsListItem(Input[i]) /\ ~IsBlank(Input[i - 1]) /\ ~IsListItem(Input[i - 1]) =>
                /\ LineAt(Output, OutPos(i)) = Input[i]
                /\ BlankAt(Output, OutPos(i) - 1)
                /\ OutPos(i - 1) = OutPos(i) - 2
                /\ \A j \in i..(Len(Input) - 1) :
                       (\A k \in i..(j + 1) : IsListItem(Input[k])) =>
                           /\ OutPos(j + 1) = OutPos(j) + 1
                           /\ LineAt(Output, OutPos(j + 1)) = Input[j + 1]

C5_Witness ==
    /\ Done
    /\ Input = <<TextLine, ItemLine, IndentedItem>>
    /\ Output = <<TextLine, NL, ItemLine, IndentedItem>>

(***************************************************************************)
(* C6                                                                      *)
(***************************************************************************)
\* C6: a line handled by the bare-URL branch stands in the output with every
\* URL token that is bounded by whitespace or the ends of the line wrapped in
\* <>, however many there are, and is otherwise unchanged.
C6_EveryUrlWrapped ==
    Done =>
        \A i \in 1..Len(Input) :
            ReachesUrlRule(Input, i) => LineAt(Output, OutPos(i)) = WrapAll(Input[i])

(***************************************************************************)
(* C7                                                                      *)
(***************************************************************************)
\* C7: the lines written never hold two blank lines in a row, and every
\* maximal run of blank lines of the Pass-1 buffer is one blank line of the
\* output, at the same place among the non-blank lines.
C7_BlankRunsCollapsed ==
    /\ pc \in {"open_w", "write", "done"} =>
           /\ NoDoubleBlank(result)
           /\ result = FirstOfBlankRuns(fixed_lines)
    /\ Done => readlines(file) = result

C7_Witness ==
    /\ Done
    /\ Input = <<HeadingLine, NL, SpaceLine>>
    /\ fixed_lines = <<HeadingLine, NL, SpaceLine>>
    /\ Output = <<HeadingLine, NL>>

(***************************************************************************)
(* C8                                                                      *)
(***************************************************************************)
\* C8: the output has as many non-blank lines as the input.
C8_NonBlankCountPreserved == Done => Len(NonBlank(Output)) = Len(NonBlank(Input))

C8_Witness ==
    /\ Done
    /\ Input = <<TextLine, FenceLine, ItemLine>>
    /\ Len(Output) = 5
    /\ Len(NonBlank(Output)) = 3

(***************************************************************************)
(* C9                                                                      *)
(***************************************************************************)
\* C9: a run whose read fails leaves the file as it was, never opened for
\* writing; the file is opened for writing only after the whole file has been
\* read and both passes have run, and is untouched until then.
C9_ReadFailureWritesNothing ==
    /\ pc = "read_failed" => file = file0 /\ exists = exists0 /\ ~opened
    /\ ~opened => file = file0 /\ exists = exists0
    /\ opened => pc \in {"write", "done"} /\ lines = readlines(file0)
    /\ pc = "write" => fixed_lines = Pass1(lines) /\ result = Pass2(fixed_lines)

C9_Witness == pc = "read_failed" /\ ~exists0 /\ ~exists

(***************************************************************************)
(* C10                                                                     *)
(***************************************************************************)
\* C10: the program run on its own output writes that output again.
C10_Idempotent == Done /\ rerun => file = file0

====
